---- MODULE Spec2Model ----
(***************************************************************************)
(* Model of static/js/dac-word-rotator.js: the DacWordRotator widget.      *)
(*                                                                         *)
(* The page (the host element, its data-words attribute, its span          *)
(* children, the body's is-ready class) and the browser's timer table are  *)
(* part of the state.  Every event handler of the script is one action:    *)
(* the window 'load' handler (initialize and the constructor), the click   *)
(* handler (toggleAnimation_), the rotation timer callback (rotateWord_)   *)
(* and the removal timer callback (the closure of rotateWord_).  Time is   *)
(* kept as the milliseconds each pending timer still has to wait.          *)
(***************************************************************************)
EXTENDS Integers, Sequences, FiniteSets, TLC

VARIABLES
    hostPresent,    \* the document has an element of class dac-word-rotator
    dataWords,      \* el.dataset.words: [defined |-> BOOLEAN, str |-> chars]
    children,       \* the span children of the host, in document order
    bodyReady,      \* document.body carries the class is-ready
    phase,          \* "unloaded", "constructed" or "failed" (constructor threw)
    listening,      \* the click listener of line 77 is registered
    words_,         \* this.words_
    currentIndex_,  \* this.currentIndex_ (0-based, as in the script)
    timeout_,       \* this.timeout_: Null or a timer id
    timers,         \* the browser's pending timers
    error,          \* the last uncaught exception, "none" if there was none
    prevented,      \* e.preventDefault() was called on the last click
    clicks,         \* history: clicks handled so far
    rotations,      \* history: calls of rotateWord_ that ran to completion
    faults,         \* history: calls of rotateWord_ that threw
    removals,       \* history: removal callbacks that removed their element
    sinceClick,     \* history: ms since the last click (saturates)
    sinceRotate,    \* history: ms since the last call of rotateWord_ (saturates)
    markupSpans     \* history: the span children the host had in the markup

vars == <<hostPresent, dataWords, children, bodyReady, phase, listening, words_,
          currentIndex_, timeout_, timers, error, prevented, clicks, rotations,
          faults, removals, sinceClick, sinceRotate, markupSpans>>

(***************************************************************************)
(* Bounds of the model.                                                    *)
(***************************************************************************)
MaxAttrLen == 3      \* longest data-words attribute value, in characters
MaxInitSpans == 2    \* most span children the host has in the page markup
MaxClicks == 3       \* clicks per behaviour
MaxRotations == 4    \* calls of rotateWord_ per behaviour
TimeStep == 250      \* largest step of the clock, in ms

(***************************************************************************)
(* Program constants.                                                      *)
(***************************************************************************)
interval_ == 2500
duration_ == 400
Null == 0

CLASSES == [ACTIVE |-> "is-active", ENTERING |-> "is-entering",
            EXITING |-> "is-exiting", IS_READY |-> "is-ready",
            ROTATOR |-> "dac-word-rotator"]

Comma == ","
Alphabet == {"a", "b", Comma}

\* The strings of at most n characters.
RECURSIVE Strings(_)
Strings(n) ==
    IF n = 0 THEN {<<>>}
    ELSE LET shorter == Strings(n - 1)
         IN  shorter \cup {Append(s, c) : s \in {t \in shorter : Len(t) = n - 1},
                                          c \in Alphabet}

Min(a, b) == IF a < b THEN a ELSE b

(***************************************************************************)
(* Pure functions of the script.                                           *)
(***************************************************************************)

\* String.prototype.split(','): the maximal comma-free pieces of s, in
\* order; a string of k commas has k + 1 pieces, some possibly empty.
RECURSIVE splitFrom(_, _, _)
splitFrom(s, i, piece) ==
    IF i > Len(s) THEN <<piece>>
    ELSE IF s[i] = Comma THEN <<piece>> \o splitFrom(s, i + 1, <<>>)
    ELSE splitFrom(s, i + 1, Append(piece, s[i]))

split(s) == splitFrom(s, 1, <<>>)

\* Array.prototype.slice(1): a copy without the first entry.
slice1(array) == SubSeq(array, 2, Len(array))

\* Faulty draws: the index is drawn after counter has been lowered, so an
\* entry is never exchanged with itself unless it is the last one left.
RandomDrawsAfterDecrement(n) ==
    {r \in [1..n -> 0..(n - 1)] : \A c \in 1..n : r[c] < c - 1 \/ r[c] = 0}

\* The values Math.floor(Math.random() * counter) can take, for each value
\* counter takes in the loop of shuffleArray_: draws[counter] \in 0..counter-1.
RandomDraws(n) == {r \in [1..n -> 0..(n - 1)] : \A c \in 1..n : r[c] < c}

\* A faulty exchange: the entry saved in temp is never written back.
swapLossy(array, counter, index) ==
    [array EXCEPT ![counter + 1] = array[index + 1]]

\* Lines 110-112: exchange array[counter] and array[index] (0-based).
swap(array, counter, index) ==
    LET temp == array[counter + 1]
    IN  [array EXCEPT ![counter + 1] = array[index + 1], ![index + 1] = temp]

\* The while loop of shuffleArray_, entered with `counter` entries left.
RECURSIVE shuffleLoop(_, _, _)
shuffleLoop(array, counter, draws) ==
    IF counter > 0
    THEN LET index == draws[counter]
         IN  shuffleLoop(swap(array, counter - 1, index), counter - 1, draws)
    ELSE array

shuffleArray_(array, draws) == shuffleLoop(array, Len(array), draws)

\* The iterations of the while loop entered with `counter`: lines 105-108,
\* one for each time the test counter > 0 succeeds.
RECURSIVE shuffleIterations(_)
shuffleIterations(counter) ==
    IF counter > 0 THEN 1 + shuffleIterations(counter - 1) ELSE 0

\* buildWords_: no list for a missing or empty attribute (both falsy),
\* otherwise the first piece followed by the shuffled rest.
buildWords_(attr, draws) ==
    IF ~attr.defined \/ attr.str = <<>> THEN <<>>
    ELSE LET words == split(attr.str)
         IN  <<words[1]>> \o shuffleArray_(slice1(words), draws)

\* Reading words_[i] (0-based): undefined past the end of the array, and
\* undefined assigned to textContent gives the empty text.
textOf(words, i) == IF i + 1 \in 1..Len(words) THEN words[i + 1] ELSE <<>>

(***************************************************************************)
(* The browser: timers and elements.                                       *)
(***************************************************************************)

\* The least positive number outside `used`: handles and elements are
\* compared for identity only, so any unused name stands for a new one.
Fresh(used) ==
    CHOOSE i \in 1..(Cardinality(used) + 1) :
        i \notin used /\ \A j \in 1..(i - 1) : j \in used

TimerIds(tmrs) == {t.id : t \in tmrs}

\* window.setTimeout(callback, delay): a new pending timer, under a handle
\* that no pending timer and no stored handle carries.
setTimeout(tmrs, handle, kind, el, delay) ==
    tmrs \cup {[id |-> Fresh(TimerIds(tmrs) \cup {handle}), kind |-> kind,
                el |-> el, remaining |-> delay]}

\* The handle setTimeout returns for the timer it adds to tmrs.
handleOf(tmrs, handle) == Fresh(TimerIds(tmrs) \cup {handle})

\* A faulty pause: every pending timer is cancelled, removals included.
clearTimeoutAll(tmrs, handle) == {}

\* A faulty pause: the handle is dropped and the timer is left pending.
clearTimeoutForgotten(tmrs, handle) == tmrs

\* window.clearTimeout(handle): the timer of that handle, if still pending,
\* is dropped; a handle of a timer that has fired cancels nothing.
clearTimeout(tmrs, handle) == {t \in tmrs : t.id # handle}

\* The rotation timers still pending.
PendingRotations == {t \in timers : t.kind = "rotate"}
PendingRemovals == {t \in timers : t.kind = "remove"}

ChildIds == {children[i].id : i \in DOMAIN children}

\* document.createElement('span'): an element no reference points to.
createElement == Fresh(ChildIds \cup {t.el : t \in timers})

\* A faulty lookup: it answers with an element when the host has no span.
querySelectorNeverNull(kids) == IF kids = <<>> THEN 1 ELSE kids[1].id

\* el_.querySelector('span'): the first span of the host, or null.
querySelector(kids) == IF kids = <<>> THEN Null ELSE kids[1].id

\* classList.add(cls) on the child `id`.
classListAdd(kids, id, cls) ==
    [i \in DOMAIN kids |->
        IF kids[i].id = id
        THEN [kids[i] EXCEPT !.classes = @ \cup {cls}]
        ELSE kids[i]]

\* A faulty removal: the element stays in the host.
removeChildNothing(kids, id) == kids

\* parentNode.removeChild(el): the host without the child `id`.
removeChild(kids, id) == SelectSeq(kids, LAMBDA k : k.id # id)

(***************************************************************************)
(* The page before the script runs.                                        *)
(***************************************************************************)
Undefined == [defined |-> FALSE, str |-> <<>>]

Attributes == {Undefined} \cup {[defined |-> TRUE, str |-> s] : s \in Strings(MaxAttrLen)}

\* The word the markup shows: the first word of the attribute.
MarkupText(attr) == IF attr.defined THEN split(attr.str)[1] ELSE <<>>

Markup(attr, n) ==
    [i \in 1..n |-> [id |-> i, text |-> MarkupText(attr), classes |-> {}]]

Init ==
    /\ hostPresent \in BOOLEAN
    /\ dataWords \in IF hostPresent THEN Attributes ELSE {Undefined}
    /\ children \in IF hostPresent
                    THEN {Markup(dataWords, n) : n \in 0..MaxInitSpans}
                    ELSE {<<>>}
    /\ bodyReady = FALSE
    /\ phase = "unloaded"
    /\ listening = FALSE
    /\ words_ = <<>>
    /\ currentIndex_ = 0
    /\ timeout_ = Null
    /\ timers = {}
    /\ error = "none"
    /\ prevented = FALSE
    /\ clicks = 0
    /\ rotations = 0
    /\ faults = 0
    /\ removals = 0
    /\ sinceClick = interval_
    /\ sinceRotate = interval_
    /\ markupSpans = Len(children)

(***************************************************************************)
(* The handlers of the script.                                             *)
(***************************************************************************)

\* A faulty scheduling: the delay is the transition duration.
scheduleWordShort(tmrs, handle) ==
    [timeout_ |-> handleOf(tmrs, handle),
     timers |-> setTimeout(tmrs, handle, "rotate", Null, duration_)]

\* A faulty scheduling: the timer is armed and its handle is not cached.
scheduleWordUncached(tmrs, handle) ==
    [timeout_ |-> handle,
     timers |-> setTimeout(tmrs, handle, "rotate", Null, interval_)]

\* scheduleWord_: arm the rotation timer and store its handle.  The result
\* is the pair of this.timeout_ and the timer table after the call.
scheduleWord_(tmrs, handle) ==
    [timeout_ |-> handleOf(tmrs, handle),
     timers |-> setTimeout(tmrs, handle, "rotate", Null, interval_)]

\* The number of random draws buildWords_ makes for the attribute.
DrawCount(attr) ==
    IF ~attr.defined \/ attr.str = <<>> THEN 0 ELSE Len(split(attr.str)) - 1

\* The window 'load' handler: DacWordRotator.initialize and the constructor
\* it calls.  Without a host element querySelector returns null, and the
\* constructor throws at this.el_.dataset, before any other statement.
initialize(draws) ==
    /\ phase = "unloaded"
    /\ IF ~hostPresent
       THEN /\ phase' = "failed"
            /\ error' = "TypeError"
            /\ UNCHANGED <<words_, currentIndex_, timeout_, timers, bodyReady,
                           listening>>
       ELSE LET armed == scheduleWord_(timers, Null)
            IN  /\ words_' = buildWords_(dataWords, draws)
                /\ currentIndex_' = 0
                /\ timeout_' = armed.timeout_
                /\ timers' = armed.timers
                /\ bodyReady' = TRUE
                /\ listening' = TRUE
                /\ phase' = "constructed"
                /\ UNCHANGED error
    /\ UNCHANGED <<hostPresent, dataWords, children, prevented, clicks,
                   rotations, faults, removals, sinceClick, sinceRotate,
                   markupSpans>>

\* A faulty test of the handle: it reads a field that is never set.
isArmedNever(handle) == FALSE

\* Line 88, if (this.timeout_): a stored handle is truthy, null is not.
isArmed(handle) == handle # Null

\* A faulty click handler: resuming starts again from the first word.
toggleAnimationRestarts ==
    /\ listening
    /\ clicks < MaxClicks
    /\ prevented' = TRUE
    /\ IF isArmed(timeout_)
       THEN /\ timers' = clearTimeout(timers, timeout_)
            /\ timeout_' = Null
            /\ UNCHANGED currentIndex_
       ELSE LET armed == scheduleWord_(timers, timeout_)
            IN  /\ timeout_' = armed.timeout_
                /\ timers' = armed.timers
                /\ currentIndex_' = 0
    /\ clicks' = clicks + 1
    /\ sinceClick' = 0
    /\ UNCHANGED <<hostPresent, dataWords, children, bodyReady, phase,
                   listening, words_, error, rotations, faults,
                   removals, sinceRotate, markupSpans>>

\* The click handler.
toggleAnimation_ ==
    /\ listening
    /\ clicks < MaxClicks
    /\ prevented' = TRUE
    /\ IF isArmed(timeout_)
       THEN /\ timers' = clearTimeout(timers, timeout_)
            /\ timeout_' = Null
       ELSE LET armed == scheduleWord_(timers, timeout_)
            IN  /\ timeout_' = armed.timeout_
                /\ timers' = armed.timers
    /\ clicks' = clicks + 1
    /\ sinceClick' = 0
    /\ UNCHANGED <<hostPresent, dataWords, children, bodyReady, phase,
                   listening, words_, currentIndex_, error, rotations, faults,
                   removals, sinceRotate, markupSpans>>

\* A faulty step: the index is taken back to 0 one rotation too late.
nextIndexLateWrap(index, words) ==
    IF index + 1 > Len(words) THEN 0 ELSE index + 1

\* A faulty step: the index is never taken back to 0.
nextIndexNoWrap(index, words) == index + 1

\* Lines 143-147: the index after currentIndex, back to 0 at the length.
nextIndexOf(index, words) ==
    IF index + 1 = Len(words) THEN 0 ELSE index + 1

\* The callback of the rotation timer t.  With no span in the host,
\* previousWordEl is null and line 162 throws: the new element is already
\* in the host, and nothing after line 162 runs.  `count` is what the call
\* adds to the history of calls (1, or 0 where no history is kept).
rotateWordBody(t, count) ==
    /\ t \in timers /\ t.kind = "rotate" /\ t.remaining = 0
    /\ LET fired == timers \ {t}
           nextIndex == nextIndexOf(currentIndex_, words_)
           nextWord == textOf(words_, nextIndex)
           previousWordEl == querySelector(children)
           nextWordEl == [id |-> createElement, text |-> nextWord,
                          classes |-> {CLASSES.ENTERING, CLASSES.ACTIVE}]
           appended == Append(children, nextWordEl)
       IN  IF previousWordEl = Null
           THEN /\ children' = appended
                /\ timers' = fired
                /\ error' = "TypeError"
                /\ faults' = faults + count
                /\ UNCHANGED <<currentIndex_, timeout_, rotations>>
           ELSE LET removal == setTimeout(fired, timeout_, "remove",
                                          previousWordEl, duration_)
                    armed == scheduleWord_(removal, timeout_)
                IN  /\ children' = classListAdd(appended, previousWordEl,
                                                CLASSES.EXITING)
                    /\ currentIndex_' = nextIndex
                    /\ timeout_' = armed.timeout_
                    /\ timers' = armed.timers
                    /\ rotations' = rotations + count
                    /\ UNCHANGED <<error, faults>>
    /\ sinceRotate' = 0
    /\ UNCHANGED <<hostPresent, dataWords, bodyReady, phase, listening,
                   words_, prevented, clicks, removals, sinceClick,
                   markupSpans>>

\* rotateWord_ with its history, for at most MaxRotations calls.
rotateWord_(t) ==
    /\ rotations + faults < MaxRotations
    /\ rotateWordBody(t, 1)

\* The callback of the removal timer t (lines 163-165): the element leaves
\* its parent; an element with no parent makes parentNode null and throws.
removeBody(t, count) ==
    /\ t \in timers /\ t.kind = "remove" /\ t.remaining = 0
    /\ timers' = timers \ {t}
    /\ IF t.el \in ChildIds
       THEN /\ children' = removeChild(children, t.el)
            /\ removals' = removals + count
            /\ UNCHANGED error
       ELSE /\ error' = "TypeError"
            /\ UNCHANGED <<children, removals>>
    /\ UNCHANGED <<hostPresent, dataWords, bodyReady, phase, listening,
                   words_, currentIndex_, timeout_, prevented, clicks,
                   rotations, faults, sinceClick, sinceRotate, markupSpans>>

removePreviousWordEl(t) == removeBody(t, 1)

\* Time passes, by at most TimeStep and never past a timer that is due:
\* timers fire in the order of their deadlines.
Elapse ==
    /\ phase = "constructed"
    /\ \A t \in timers : t.remaining > 0
    /\ timers # {} \/ sinceClick < interval_ \/ sinceRotate < interval_
    /\ LET waits == {t.remaining : t \in timers} \cup {TimeStep}
           d == CHOOSE w \in waits : \A v \in waits : w <= v
       IN  /\ timers' = {[t EXCEPT !.remaining = @ - d] : t \in timers}
           /\ sinceClick' = Min(sinceClick + d, interval_)
           /\ sinceRotate' = Min(sinceRotate + d, interval_)
    /\ UNCHANGED <<hostPresent, dataWords, children, bodyReady, phase,
                   listening, words_, currentIndex_, timeout_, error,
                   prevented, clicks, rotations, faults, removals,
                   markupSpans>>

Next ==
    \/ \E draws \in RandomDraws(DrawCount(dataWords)) : initialize(draws)
    \/ toggleAnimation_
    \/ \E t \in timers : rotateWord_(t)
    \/ \E t \in timers : removePreviousWordEl(t)
    \/ Elapse

Spec == Init /\ [][Next]_vars

(***************************************************************************)
(* The same handlers without the history of calls, so that rotations can   *)
(* go on for ever, under the browser's scheduling: the load event is       *)
(* delivered, time passes, and a timer that is due has its callback run.   *)
(* Clicks are up to the user and are not fair.  On an empty word list the  *)
(* index counts up without end, and is stopped at MaxRotations.            *)
(***************************************************************************)
rotateWordLive(t) ==
    /\ words_ # <<>> \/ currentIndex_ < MaxRotations
    /\ rotateWordBody(t, 0)

removeLive(t) == removeBody(t, 0)

NextLive ==
    \/ \E draws \in RandomDraws(DrawCount(dataWords)) : initialize(draws)
    \/ toggleAnimation_
    \/ \E t \in timers : rotateWordLive(t)
    \/ \E t \in timers : removeLive(t)
    \/ Elapse

SpecLive ==
    /\ Init
    /\ [][NextLive]_vars
    /\ WF_vars(\E draws \in RandomDraws(DrawCount(dataWords)) : initialize(draws))
    /\ WF_vars(\E t \in timers : rotateWordLive(t))
    /\ WF_vars(\E t \in timers : removeLive(t))
    /\ WF_vars(Elapse)

(***************************************************************************)
(* Vocabulary of the properties.                                           *)
(***************************************************************************)
Constructed == phase = "constructed"

\* The timer whose handle this.timeout_ holds is pending.
HandlePending == \E t \in PendingRotations : t.id = timeout_

(***************************************************************************)
(* C1: in every state of a constructed rotator, this.timeout_ is non-null  *)
(* if and only if a rotation timer is pending.                             *)
(* The code breaks it: a rotation that finds no span in the host throws at *)
(* line 162, before scheduleWord_, and leaves the handle of the timer that *)
(* has just fired in this.timeout_.                                        *)
(***************************************************************************)
C1_HandleIffPending ==
    Constructed => ((timeout_ # Null) <=> (PendingRotations # {}))

\* The same statement for the behaviours in which no rotation has thrown.
C1_HandleIffPendingUnlessFault ==
    (Constructed /\ faults = 0) => ((timeout_ # Null) <=> HandlePending)

(***************************************************************************)
(* C2: single active timer.  An instance never has more than one pending   *)
(* rotation timer; the pending one is the timer whose handle this.timeout_ *)
(* holds, so a cleared handle means no pending rotation timer, and         *)
(* scheduleWord_ is never called while a rotation timer is pending (that   *)
(* call would leave two).                                                  *)
(***************************************************************************)
C2_SingleActiveTimer ==
    /\ Cardinality(PendingRotations) <= 1
    /\ \A t \in PendingRotations : t.id = timeout_

\* A rotation timer is pending after a pause, a resume and a rotation.
C2_Witness ==
    /\ Constructed
    /\ clicks >= 2
    /\ rotations >= 1
    /\ Cardinality(PendingRotations) = 1

(***************************************************************************)
(* C3: with the word-list attribute absent or empty the constructor does   *)
(* not throw, the word list is empty, and no rotation ever occurs: the     *)
(* index stays 0, the host keeps the children of the markup, and no error  *)
(* is raised.                                                              *)
(* The code breaks it: buildWords_ returns [] and the constructor arms the *)
(* timer all the same; rotateWord_ then appends a span of empty text and   *)
(* counts the index up past the end of the list.  The statement is taken   *)
(* for hosts that have a span, where no rotation throws.                   *)
(***************************************************************************)
EmptyAttribute == ~dataWords.defined \/ dataWords.str = <<>>

C3_EmptyListNeverRotates ==
    (hostPresent /\ phase # "unloaded" /\ EmptyAttribute /\ markupSpans >= 1) =>
        /\ Constructed
        /\ words_ = <<>>
        /\ currentIndex_ = 0
        /\ rotations = 0
        /\ children = Markup(dataWords, markupSpans)
        /\ error = "none"

(***************************************************************************)
(* C4: on page load without an element of the rotator class, nothing       *)
(* happens: no rotator is constructed, no timer is armed, the ready flag   *)
(* is not set, and no error is raised.                                     *)
(* The code breaks it: initialize passes null to the constructor, which    *)
(* throws a TypeError at this.el_.dataset.                                 *)
(***************************************************************************)
C4_NoHostNoError ==
    (~hostPresent /\ phase # "unloaded") =>
        /\ ~Constructed
        /\ ~listening
        /\ timers = {}
        /\ timeout_ = Null
        /\ ~bodyReady
        /\ error = "none"

(***************************************************************************)
(* C5: pausing stops rotation.  While the handle is cleared (from a        *)
(* pausing click until the next click) no rotation timer is pending, and   *)
(* no step, however much time passes, runs a rotation: the index and the   *)
(* number of rotations do not change and no element is added to the host.  *)
(***************************************************************************)
Paused == Constructed /\ timeout_ = Null

C5_PausedNoRotation ==
    /\ [](Paused => PendingRotations = {})
    /\ [][(Paused /\ clicks' = clicks) =>
            /\ currentIndex_' = currentIndex_
            /\ rotations' = rotations
            /\ faults' = faults
            /\ Len(children') <= Len(children)]_vars

\* Paused by the first click, a full interval ago, before any rotation.
C5_Witness ==
    /\ Paused
    /\ clicks = 1
    /\ sinceClick = interval_
    /\ rotations = 0 /\ faults = 0
    /\ Len(words_) >= 2
    /\ children # <<>>

(***************************************************************************)
(* C6 as stated: for a non-empty word list of length n, after k completed  *)
(* rotations the index equals (1 + k) mod n.                               *)
(* It fails already for k = 0 and n >= 2: the index starts at 0.           *)
(***************************************************************************)
C6_IndexIsOnePlusK ==
    (Constructed /\ words_ # <<>>) =>
        currentIndex_ = (1 + rotations) % Len(words_)

(***************************************************************************)
(* C6 as amended: for a non-empty word list of length n, after k completed *)
(* rotations the index equals k mod n; with 3 words it is back at 0 after  *)
(* 3 rotations.                                                            *)
(***************************************************************************)
C6_IndexIsKModN ==
    (Constructed /\ words_ # <<>>) =>
        currentIndex_ = rotations % Len(words_)

\* Three words, three rotations: the index has wrapped around to 0.
C6_Witness ==
    /\ Constructed
    /\ Len(words_) = 3
    /\ rotations = 3
    /\ currentIndex_ = 0

(***************************************************************************)
(* C7: in every state the displayed word, the text of the last element     *)
(* added to the host that is not exiting, is the word at the current       *)
(* index of the word list.                                                 *)
(* The code breaks it where a rotation throws for want of a span in the    *)
(* host: the element of the next word is already in the host, marked       *)
(* entering and active, and the index is not advanced.                     *)
(***************************************************************************)
Shown == SelectSeq(children, LAMBDA k : CLASSES.EXITING \notin k.classes)

C7_DisplayedIsCurrentWord ==
    (Constructed /\ Shown # <<>>) =>
        Shown[Len(Shown)].text = textOf(words_, currentIndex_)

\* The same statement for the behaviours in which no rotation has thrown.
C7_DisplayedUnlessFault ==
    (Constructed /\ Shown # <<>> /\ faults = 0) =>
        Shown[Len(Shown)].text = textOf(words_, currentIndex_)

(***************************************************************************)
(* C8: from a host with exactly one word element, the host always holds    *)
(* one word element, or two within 400 ms of a rotation: the exiting one,  *)
(* awaiting its removal, before the entering and active one.  It never     *)
(* holds none or three, and it holds exactly one once more than 400 ms     *)
(* have passed since the rotation.                                         *)
(***************************************************************************)
C8_OneOrTwoWordElements ==
    (Constructed /\ markupSpans = 1) =>
        /\ Len(children) \in {1, 2}
        /\ Len(Shown) = 1
        /\ Len(children) = 2 =>
            /\ sinceRotate <= duration_
            /\ CLASSES.EXITING \in children[1].classes
            /\ {CLASSES.ENTERING, CLASSES.ACTIVE} \subseteq children[2].classes
            /\ \E t \in PendingRemovals :
                    t.el = children[1].id /\ t.remaining = duration_ - sinceRotate
        /\ sinceRotate > duration_ => Len(children) = 1
        /\ Len(children) = 1 => PendingRemovals = {}

\* Two word elements in the middle of the second transition, after a click.
C8_Witness ==
    /\ Constructed /\ markupSpans = 1
    /\ Len(children) = 2
    /\ rotations = 2
    /\ clicks >= 1
    /\ sinceRotate > 0

(***************************************************************************)
(* C9: for every attribute value of n >= 1 comma-separated tokens and      *)
(* every outcome of the random draws, the word list has n entries, its     *)
(* first entry is the first token, and its other entries are the other     *)
(* tokens, each as many times as in the attribute.                         *)
(***************************************************************************)
Count(seq, x) == Cardinality({i \in DOMAIN seq : seq[i] = x})

Range(seq) == {seq[i] : i \in DOMAIN seq}

IsPermutation(a, b) ==
    /\ Len(a) = Len(b)
    /\ \A x \in Range(a) \cup Range(b) : Count(a, x) = Count(b, x)

C9_FirstKeptRestPermuted ==
    (Constructed /\ ~EmptyAttribute) =>
        LET tokens == split(dataWords.str)
        IN  /\ Len(words_) = Len(tokens)
            /\ words_[1] = tokens[1]
            /\ IsPermutation(slice1(words_), slice1(tokens))

\* Three tokens whose last two differ, and the shuffle has exchanged them.
C9_Witness ==
    /\ Constructed
    /\ ~EmptyAttribute
    /\ Len(words_) = 3
    /\ words_[2] # words_[3]
    /\ words_ # split(dataWords.str)

(***************************************************************************)
(* C10: the instance is a two-state machine.  It is Running (a rotation    *)
(* timer is armed) right after construction, every click flips Running     *)
(* and Paused, and every firing of the rotation timer advances the index   *)
(* and leaves it Running: so it is Running iff the clicks so far are even. *)
(* The code breaks it where a rotation throws for want of a span in the    *)
(* host: the firing neither advances the index nor arms a timer, and the   *)
(* instance is left without a timer after an even number of clicks.        *)
(***************************************************************************)
Running == Constructed /\ PendingRotations # {}

C10_RunningIffEvenClicks ==
    Constructed => (Running <=> clicks % 2 = 0)

\* The same statement for the behaviours in which no rotation has thrown.
C10_RunningIffEvenClicksUnlessFault ==
    (Constructed /\ faults = 0) => (Running <=> clicks % 2 = 0)

(***************************************************************************)
(* Steps of the handlers, told apart by what they do to the state.         *)
(***************************************************************************)
\* A step of the click handler.
ClickStep == clicks' = clicks + 1

\* A step in which a due rotation timer fires, that is, a call of
\* rotateWord_ (a click that cancels a due timer is not one).
RotationFires ==
    /\ clicks' = clicks
    /\ \E t \in PendingRotations : t.remaining = 0 /\ t \notin timers'

\* A step in which a due removal timer fires.
RemovalFires ==
    \E t \in PendingRemovals : t.remaining = 0 /\ t \notin timers'

(***************************************************************************)
(* C11 as stated: pausing twice in a row, through the only pause entry     *)
(* point (the click handler), leaves the instance Paused: the second click *)
(* changes no state.                                                       *)
(* It fails: the handler is a toggle, and the second click resumes.        *)
(***************************************************************************)
C11_SecondPauseIsNoOp ==
    [][(Paused /\ ClickStep) =>
        /\ timeout_' = Null
        /\ timers' = timers
        /\ error' = error]_vars

(***************************************************************************)
(* C11 as amended: the click handler is a toggle, not an idempotent pause. *)
(* A click on a Paused instance raises no fault, changes neither the index *)
(* nor the host, and arms one rotation timer of a full interval whose      *)
(* handle it stores: the instance is Running again.                        *)
(***************************************************************************)
C11_SecondClickResumes ==
    [][(Paused /\ ClickStep) =>
        /\ error' = error
        /\ currentIndex_' = currentIndex_
        /\ children' = children
        /\ timeout_' # Null
        /\ \E t \in timers' :
              /\ t.id = timeout_' /\ t.kind = "rotate" /\ t.remaining = interval_
              /\ timers' = timers \cup {t}
              /\ t \notin timers]_vars

\* Two clicks in a row, no rotation before or between: Running again.
C11_Witness ==
    /\ Constructed
    /\ clicks = 2
    /\ sinceClick = 0
    /\ rotations = 0 /\ faults = 0
    /\ timeout_ # Null
    /\ Cardinality(PendingRotations) = 1

(***************************************************************************)
(* C12: toggle round trip.  From Running, a pausing click leaves no        *)
(* rotation timer, and the resuming click that follows leaves exactly one, *)
(* of a full interval, with the index unchanged by both.  The countdown    *)
(* restarts: while less than an interval has passed since a click, the     *)
(* pending timer has the interval less that time still to wait, so the     *)
(* rotation fires a full 2500 ms after the resuming click, and the word it *)
(* shows is the one at (currentIndex + 1) mod n.                           *)
(***************************************************************************)
LastChild(kids) == kids[Len(kids)]

C12_ToggleRoundTrip ==
    /\ [][(Running /\ ClickStep) =>
            /\ Paused'
            /\ PendingRotations' = {}
            /\ currentIndex_' = currentIndex_]_vars
    /\ [][(Paused /\ ClickStep) =>
            /\ Running'
            /\ Cardinality(PendingRotations') = 1
            /\ currentIndex_' = currentIndex_]_vars
    /\ [](Running /\ clicks > 0 /\ sinceClick < interval_ =>
            \A t \in PendingRotations : t.remaining = interval_ - sinceClick)
    /\ [][RotationFires => sinceClick = interval_]_vars
    /\ [][(RotationFires /\ words_ # <<>>) =>
            /\ Len(children') = Len(children) + 1
            /\ LastChild(children').text =
                   textOf(words_, (currentIndex_ + 1) % Len(words_))
            /\ CLASSES.ACTIVE \in LastChild(children').classes]_vars

\* A pause, a resume, and the rotation the new timer has just fired, a
\* full interval after the resuming click.
C12_Witness ==
    /\ Running
    /\ clicks = 2
    /\ rotations = 1
    /\ sinceRotate = 0
    /\ sinceClick = interval_
    /\ currentIndex_ = 1
    /\ Len(words_) >= 2

(***************************************************************************)
(* C13: liveness.  With a non-empty word list, if from some point on there *)
(* are no more clicks and the instance is Running then (the handle stays   *)
(* set for ever), rotations occur infinitely often and every word of the   *)
(* list is displayed infinitely often; while the instance is Paused no     *)
(* step but a click rotates.                                               *)
(* The code breaks it on a host without a span: the first rotation throws  *)
(* before it re-arms the timer, and with no click nothing ever rotates.    *)
(***************************************************************************)
\* Word i of the list has just been put on display by a rotation.
JustDisplayed(i) ==
    /\ currentIndex_ = i
    /\ sinceRotate = 0
    /\ children # <<>>
    /\ LastChild(children).text = textOf(words_, i)

PausedStaysPut ==
    [][(Paused /\ clicks' = clicks) =>
        /\ currentIndex_' = currentIndex_
        /\ Len(children') <= Len(children)]_vars

C13_RunningRotatesForever ==
    /\ \A i \in 0..MaxAttrLen :
          <>[](Constructed /\ timeout_ # Null /\ i < Len(words_))
              => []<>JustDisplayed(i)
    /\ PausedStaysPut

\* The same statement for the hosts that have a span in the markup.
C13_RunningRotatesForeverWithSpan ==
    /\ \A i \in 0..MaxAttrLen :
          <>[](Constructed /\ timeout_ # Null /\ i < Len(words_)
                  /\ markupSpans >= 1)
              => []<>JustDisplayed(i)
    /\ PausedStaysPut

ArmedInStep ==
    \E t \in PendingRotations' : t.remaining = interval_ /\ t \notin timers

C15_RotationsInOrder ==
    /\ [][ArmedInStep =>
            \/ phase = "unloaded" /\ Constructed'
            \/ ClickStep /\ Paused
            \/ RotationFires /\ children # <<>>]_vars
    /\ [][RotationFires => sinceRotate = interval_]_vars
    /\ [][(RotationFires /\ ArmedInStep) =>
            /\ currentIndex_' = nextIndexOf(currentIndex_, words_)
            /\ LastChild(children').text = textOf(words_, currentIndex_')
            /\ Cardinality(PendingRotations') = 1]_vars

\* The second rotation in a row, of a list of three words or more.
C15_Witness ==
    /\ Running
    /\ clicks = 0
    /\ rotations = 2
    /\ sinceRotate = 0
    /\ currentIndex_ = 2

(***************************************************************************)
(* C16: the removal of an exiting element does not depend on pause and     *)
(* resume.  Every exiting element of the host has exactly one removal      *)
(* timer, due 400 ms after the rotation that marked it; a click leaves the *)
(* removal timers and the host as they are; and the removal callback runs  *)
(* 400 ms after the rotation and takes its element out of the host.        *)
(***************************************************************************)
Exiting(k) == CLASSES.EXITING \in k.classes

C16_RemovalIndependentOfClicks ==
    /\ [](Constructed =>
            /\ \A i \in DOMAIN children :
                  Exiting(children[i]) =>
                      Cardinality({t \in PendingRemovals :
                                      t.el = children[i].id}) = 1
            /\ \A t \in PendingRemovals :
                  /\ t.remaining = duration_ - sinceRotate
                  /\ \E i \in DOMAIN children :
                        children[i].id = t.el /\ Exiting(children[i]))
    /\ [][ClickStep =>
            PendingRemovals' = PendingRemovals /\ children' = children]_vars
    /\ [][RemovalFires =>
            /\ sinceRotate = duration_
            /\ removals' = removals + 1
            /\ Len(children') = Len(children) - 1
            /\ \A i \in DOMAIN children' : ~Exiting(children'[i])
            /\ error' = error]_vars

\* Paused during the transition of the first rotation; the exiting element
\* has just been removed all the same, 400 ms after the rotation.
C16_Witness ==
    /\ Paused
    /\ rotations = 1
    /\ removals = 1
    /\ sinceRotate = duration_
    /\ sinceClick < sinceRotate
    /\ \A i \in DOMAIN children : ~Exiting(children[i])

(***************************************************************************)
(* C17: shuffle coverage.  For a rest of m tokens, every one of the m!     *)
(* orderings is the result of shuffleArray_ for some draws (each index     *)
(* drawn from 0..counter-1), no draws give anything else, the loop makes   *)
(* exactly m iterations, and the word list built is one of these results.  *)
(* The orderings are taken of the positions 1..m, which tells apart        *)
(* tokens that are equal.                                                  *)
(***************************************************************************)
Positions(m) == [i \in 1..m |-> i]

PositionOrderings(m) ==
    {p \in [1..m -> 1..m] : \A i, j \in 1..m : p[i] = p[j] => i = j}

Orderings(m) == {shuffleArray_(Positions(m), d) : d \in RandomDraws(m)}

\* The tokens of `rest` in the ordering p of their positions.
Reordered(rest, p) == [i \in 1..Len(rest) |-> rest[p[i]]]

C17_EveryOrderingReachable ==
    hostPresent =>
        LET m == DrawCount(dataWords)
            rest == IF EmptyAttribute THEN <<>> ELSE slice1(split(dataWords.str))
        IN  /\ Orderings(m) = PositionOrderings(m)
            /\ {shuffleArray_(rest, d) : d \in RandomDraws(m)} =
                   {Reordered(rest, p) : p \in PositionOrderings(m)}
            /\ shuffleIterations(Len(rest)) = m
            /\ (Constructed /\ ~EmptyAttribute) =>
                   \E p \in PositionOrderings(m) :
                       slice1(words_) = Reordered(rest, p)

\* A word list built from an attribute with a rest of three tokens, which
\* has six orderings.
C17_Witness ==
    /\ Constructed
    /\ DrawCount(dataWords) = 3
    /\ Len(words_) = 4
    /\ Cardinality(Orderings(3)) = 6

(***************************************************************************)
(* C18: on a host whose markup has exactly one span, whatever the clicks.  *)
(* When a rotation timer is due the host holds one element, not exiting,   *)
(* showing the current word: it is the one the rotation takes as previous  *)
(* and marks exiting.  An exiting element has one removal timer, a removal *)
(* timer's element is in the host, and no callback has thrown.             *)
(***************************************************************************)
RotationDue == \E t \in PendingRotations : t.remaining = 0

RemovalsOf(id) == {t \in PendingRemovals : t.el = id}

C18_PreviousIsDisplayed ==
    /\ [](markupSpans = 1 =>
            /\ error = "none"
            /\ \A t \in PendingRemovals :
                   \E i \in DOMAIN children :
                       children[i].id = t.el /\ Exiting(children[i])
            /\ \A i \in DOMAIN children :
                   Cardinality(RemovalsOf(children[i].id)) =
                       IF Exiting(children[i]) THEN 1 ELSE 0
            /\ (Constructed /\ RotationDue) =>
                   /\ Len(children) = 1
                   /\ ~Exiting(children[1])
                   /\ children[1].text = textOf(words_, currentIndex_))
    /\ [][(markupSpans = 1 /\ RotationFires) =>
            /\ querySelector(children) = children[1].id
            /\ ~Exiting(children[1])
            /\ Len(children') = 2
            /\ children'[1].id = children[1].id
            /\ Exiting(children'[1])
            /\ ~Exiting(children'[2])
            /\ RemovalsOf(children[1].id) = {}
            /\ Cardinality({t \in PendingRemovals' : t.el = children[1].id}) = 1
         ]_vars

\* A third rotation is due on a host of one span, after clicks and after
\* the removal of the elements of the rotations before.
C18_Witness ==
    /\ markupSpans = 1
    /\ RotationDue
    /\ rotations >= 2
    /\ removals >= 2
    /\ clicks >= 2
    /\ Len(words_) >= 2
    /\ Len(children) = 1

(***************************************************************************)
(* C19: a click changes only the timer state.  toggleAnimation_ leaves     *)
(* currentIndex_, the word list and the children of the host (number,      *)
(* text, classes) as they are, whether it pauses or resumes; and once the  *)
(* rotator is constructed no step changes the word list.                   *)
(***************************************************************************)
C19_ClickChangesOnlyTimers ==
    /\ [][ClickStep =>
            /\ currentIndex_' = currentIndex_
            /\ words_' = words_
            /\ children' = children
            /\ error' = error
            /\ phase' = phase /\ listening' = listening
            /\ bodyReady' = bodyReady
            /\ IF timeout_ # Null THEN timeout_' = Null ELSE timeout_' # Null
         ]_vars
    /\ [][Constructed => words_' = words_]_vars

\* A pause and a resume have just been clicked while a word was leaving:
\* the index is past the first word and the host holds two elements.
C19_Witness ==
    /\ clicks >= 2
    /\ sinceClick = 0
    /\ timeout_ # Null
    /\ rotations >= 1
    /\ currentIndex_ >= 1
    /\ Len(children) = 2
    /\ Len(words_) >= 2

(***************************************************************************)
(* C20: a rotation that fires on a host with no span faults after the new  *)
(* element is appended with the classes entering and active.  The index    *)
(* stays, no removal is scheduled, no rotation timer is armed and the      *)
(* handle is left as it was; and while no rotation timer is pending, only  *)
(* a click can bring one back, so no rotation happens before that click.   *)
(***************************************************************************)
C20_FaultOnEmptyHost ==
    /\ [][(RotationFires /\ children = <<>>) =>
            /\ Len(children') = 1
            /\ children'[1].classes = {CLASSES.ENTERING, CLASSES.ACTIVE}
            /\ children'[1].text =
                   textOf(words_, nextIndexOf(currentIndex_, words_))
            /\ error' = "TypeError"
            /\ currentIndex_' = currentIndex_
            /\ timeout_' = timeout_
            /\ timers' = {}
         ]_vars
    /\ [][(Constructed /\ PendingRotations = {} /\ ~ClickStep) =>
            /\ PendingRotations' = {}
            /\ currentIndex_' = currentIndex_
            /\ rotations' = rotations
            /\ faults' = faults
         ]_vars

\* A full interval after the fault: the new element is alone in the host,
\* the index has not moved and no timer is pending.
C20_Witness ==
    /\ faults = 1
    /\ error = "TypeError"
    /\ Len(words_) >= 2
    /\ Len(children) = 1
    /\ children[1].text = textOf(words_, 1)
    /\ currentIndex_ = 0
    /\ timers = {}
    /\ sinceRotate = interval_
    /\ clicks = 0

====
